---- MODULE Spec2Model ----
(***************************************************************************)
(* flask_open_directory: the attribute-mapping models (model/model.py,     *)
(* model/model_abc.py, model/__init__.py), the query builder               *)
(* (query/base_query.py, query/__init__.py) and the directory handle with  *)
(* its application-context scoped shared connection (base/__init__.py).    *)
(*                                                                         *)
(* Python strings are strings, sequences of characters: formatting is      *)
(* concatenation, and the substring test of search_base is computed on the *)
(* characters.  A Python value is a record tagged by its type in field t.  *)
(***************************************************************************)
EXTENDS Integers, Sequences, FiniteSets, TLC

VARIABLES
    obj,                \* SpecModel: the model instance under test, or None
    _search_base,       \* BaseQuery._search_base, None while never set
    _search_filter,     \* BaseQuery._search_filter
    _ldap_attributes,   \* BaseQuery._ldap_attributes
    _model,             \* BaseQuery._model
    _connection,        \* BaseQuery._connection
    _open_directory,    \* BaseQuery._open_directory
    _app_ctx_stack,     \* flask's stack of application contexts (scope ids)
    ctx_connection,     \* scope id -> its open_directory_connection attribute
    connections,        \* every ldap3.Connection created so far, by id
    last                \* the last call: its name, arguments and outcome

vars == <<obj, _search_base, _search_filter, _ldap_attributes, _model,
          _connection, _open_directory, _app_ctx_stack, ctx_connection,
          connections, last>>

queryVars == <<_search_base, _search_filter, _ldap_attributes, _model,
               _connection, _open_directory, _app_ctx_stack, ctx_connection,
               connections>>

-----------------------------------------------------------------------------
(* Python values *)

None == [t |-> "None"]
Str(s) == [t |-> "str", v |-> s]
List(xs) == [t |-> "list", v |-> xs]
Tuple(xs) == [t |-> "tuple", v |-> xs]

\* bool(value) for the values of the model
Truthy(value) ==
    CASE value.t = "None" -> FALSE
      [] value.t \in {"str", "list", "tuple"} -> Len(value.v) > 0
      [] OTHER -> TRUE

\* the outcome of a call: a returned value or a raised exception
Return(value) == [exc |-> "", ret |-> value]
Raise(exc) == [exc |-> exc, ret |-> None]

\* str.lower() on the letters the class names use
Lower(c) ==
    CASE c = "U" -> "u"
      [] c = "G" -> "g"
      [] c = "C" -> "c"
      [] OTHER -> c

RECURSIVE lower(_)
lower(s) ==
    IF Len(s) = 0 THEN ""
    ELSE Lower(SubSeq(s, 1, 1)) \o lower(SubSeq(s, 2, Len(s)))

\* ''.join(parts)
RECURSIVE join(_)
join(parts) ==
    IF parts = <<>> THEN "" ELSE Head(parts) \o join(Tail(parts))

\* needle in haystack, for strings
Contains(haystack, needle) ==
    \E i \in 0..(Len(haystack) - Len(needle)) :
        SubSeq(haystack, i + 1, i + Len(needle)) = needle

\* dictionaries are sequences of <<key, value>> pairs in insertion order
keys(d) == {d[i][1] : i \in DOMAIN d}
values(d) == {d[i][2] : i \in DOMAIN d}

-----------------------------------------------------------------------------
(* model/model.py, model/__init__.py, examples/custom_model.py: the classes *)

Attribute(ldap_key, allow_multiple) ==
    [t |-> "Attribute", ldap_key |-> ldap_key, allow_multiple |-> allow_multiple]

\* vars(User).items(): the names the class body binds, in order (of the
\* names the interpreter adds, __module__ stands for all)
User ==
    << << "__module__", Str("flask_open_directory.model") >>,
       << "id", Attribute("apple-generateduid", FALSE) >>,
       << "username", Attribute("uid", FALSE) >>,
       << "email", Attribute("mail", TRUE) >>,
       << "full_name", Attribute("cn", FALSE) >> >>

\* vars(Group).items()
Group ==
    << << "__module__", Str("flask_open_directory.model") >>,
       << "id", Attribute("apple-generateduid", FALSE) >>,
       << "group_name", Attribute("cn", FALSE) >>,
       << "full_name", Attribute("apple-group-realname", FALSE) >>,
       << "users", Attribute("memberUid", TRUE) >>,
       << "member_ids", Attribute("apple-group-memberguid", TRUE) >>,
       << "has_user", [t |-> "function"] >> >>

\* vars(ComputerGroup).items()
ComputerGroup ==
    << << "__module__", Str("__main__") >>,
       << "id", Attribute("apple-generateduid", FALSE) >>,
       << "computer_names", Attribute("memberUid", TRUE) >>,
       << "computer_ids", Attribute("apple-group-memberguid", TRUE) >>,
       << "has_computer", [t |-> "function"] >>,
       << "query_cn", [t |-> "classmethod"] >> >>

\* vars(Crossed).items() of a subclass a caller defines, in which the name
\* of one field is the ldap key of another:
\*     class Crossed(BaseModel):
\*         cn = Attribute('uid')
\*         name = Attribute('cn', allow_multiple=True)
Crossed ==
    << << "__module__", Str("__main__") >>,
       << "cn", Attribute("uid", FALSE) >>,
       << "name", Attribute("cn", TRUE) >> >>

\* the classes of the repository
Classes == {"User", "Group", "ComputerGroup"}

\* vars(cls).items()
ClassVars(cls) ==
    CASE cls = "User" -> User
      [] cls = "Group" -> Group
      [] cls = "ComputerGroup" -> ComputerGroup
      [] cls = "Crossed" -> Crossed

\* cls.__name__
ClassName(cls) ==
    CASE cls = "User" -> "User"
      [] cls = "Group" -> "Group"
      [] cls = "ComputerGroup" ->
            "ComputerGroup"
      [] cls = "Crossed" -> "Crossed"

\* ModelABC._query_cn, which no class of the repository overrides
_query_cn(cls) == None

\* BaseModel.ldap_attribute_map: {k: v.ldap_key} over the Attribute members
ldap_attribute_map(cls) ==
    LET attrs == SelectSeq(ClassVars(cls), LAMBDA kv : kv[2].t = "Attribute")
    IN  [i \in 1..Len(attrs) |-> <<attrs[i][1], attrs[i][2].ldap_key>>]

\* ModelABC.ldap_keys: tuple(cls.ldap_attribute_map().values())
ldap_keys(cls) ==
    LET m == ldap_attribute_map(cls)
    IN  Tuple([i \in 1..Len(m) |-> m[i][2]])

\* ModelABC.attribute_name_for: the first field whose ldap key is ldap_key
attribute_name_for(cls, ldap_key) ==
    LET m == ldap_attribute_map(cls)
        hits == {i \in DOMAIN m : m[i][2] = ldap_key}
    IN  IF hits = {} THEN None
        ELSE Str(m[CHOOSE i \in hits : \A j \in hits : i <= j][1])

\* ModelABC.query_cn, and ComputerGroup's override of it
query_cn(cls) ==
    IF cls = "ComputerGroup"
    THEN Str("cn=computer_groups")
    ELSE IF Truthy(_query_cn(cls)) THEN _query_cn(cls)
         ELSE Str(lower(ClassName(cls)) \o "s")

\* BaseModel.attribute_for_key: the class member the key resolves to
attribute_for_key(cls, key) ==
    LET name == IF key \in values(ldap_attribute_map(cls))
                THEN attribute_name_for(cls, key)
                ELSE Str(key)
        cv == ClassVars(cls)
        hits == {i \in DOMAIN cv : name.t = "str" /\ cv[i][1] = name.v}
    IN  IF hits = {} THEN None
        ELSE cv[CHOOSE i \in hits : \A j \in hits : i <= j][2]

-----------------------------------------------------------------------------
(* model/model.py: instances of BaseModel *)

\* a dict as a function: d[key] = value, and d.get(key)
SetItem(d, key, value) ==
    [k \in (DOMAIN d) \cup {key} |-> IF k = key THEN value ELSE d[k]]

Get(d, key) == IF key \in DOMAIN d THEN d[key] ELSE None

\* a fresh instance of cls: no value stored, no instance attribute
NewInstance(cls) ==
    [t |-> "instance", cls |-> cls,
     _ldap_values |-> [k \in {} |-> None],
     __dict__ |-> [k \in {} |-> None]]

\* BaseModel.ldap_values: the value store of an instance
ldap_values(self) == self._ldap_values

\* __setattr__ without the translation of an ldap key to its field name: the
\* value is stored under the key as given
__setattr__verbatim(self, key, value) ==
    LET m == ldap_attribute_map(self.cls)
    IN  IF key \in keys(m) \cup values(m)
        THEN [self EXCEPT !._ldap_values = SetItem(ldap_values(self), key, value)]
        ELSE [self EXCEPT !.__dict__ = SetItem(self.__dict__, key, value)]

\* BaseModel.__setattr__: declared names and ldap keys go to the value
\* store under the field name, every other key becomes an instance attribute
__setattr__(self, key, value) ==
    LET m == ldap_attribute_map(self.cls)
    IN  IF key \in keys(m)
        THEN [self EXCEPT !._ldap_values = SetItem(ldap_values(self), key, value)]
        ELSE IF key \in values(m)
        THEN [self EXCEPT !._ldap_values =
                 SetItem(ldap_values(self), attribute_name_for(self.cls, key).v, value)]
        ELSE [self EXCEPT !.__dict__ = SetItem(self.__dict__, key, value)]

\* the loop of BaseModel.__init__ over kwargs.items()
RECURSIVE SetAll(_, _)
SetAll(self, kwargs) ==
    IF kwargs = <<>> THEN self
    ELSE SetAll(__setattr__(self, Head(kwargs)[1], Head(kwargs)[2]), Tail(kwargs))

\* BaseModel.__init__(**kwargs)
__init__(cls, kwargs) == SetAll(NewInstance(cls), kwargs)

\* an ldap3.Entry with its entry_attributes_as_dict
Entry(d) == [t |-> "Entry", entry_attributes_as_dict |-> d]

\* ModelABC.from_entry: cls(**entry.entry_attributes_as_dict); None has no
\* entry_attributes_as_dict
from_entry(cls, entry) ==
    IF entry.t = "Entry"
    THEN Return(__init__(cls, entry.entry_attributes_as_dict))
    ELSE Raise("AttributeError")

\* object.__getattribute__(self, key): instance attribute, else class member
ObjectGetattribute(self, key) ==
    IF key \in DOMAIN self.__dict__ THEN Return(self.__dict__[key])
    ELSE LET cv == ClassVars(self.cls)
             hits == {i \in DOMAIN cv : cv[i][1] = key}
         IN  IF hits = {} THEN Raise("AttributeError")
             ELSE Return(cv[CHOOSE i \in hits : TRUE][2])

\* BaseModel._get_ldap_value
_get_ldap_value(self, key) ==
    LET value == Get(ldap_values(self), key)
        attribute == ObjectGetattribute(self, key).ret
    IN  IF Truthy(value) /\ attribute.allow_multiple = FALSE
        THEN IF value.t = "list" /\ Len(value.v) > 0
             THEN Str(value.v[1])
             ELSE value
        ELSE value

\* BaseModel.__getattribute__
__getattribute__(self, key) ==
    LET attr_map == ldap_attribute_map(self.cls)
        ldap_key == IF key \in keys(attr_map) THEN Str(key)
                    ELSE IF key \in values(attr_map)
                    THEN attribute_name_for(self.cls, key)
                    ELSE None
    IN  IF ldap_key.t # "None"
        THEN Return(_get_ldap_value(self, ldap_key.v))
        ELSE ObjectGetattribute(self, key)

\* a python bool
Bool(b) == [t |-> "bool", v |-> b]

\* user in value: an item of a list or tuple, a substring of a str
In(user, value) ==
    IF value.t = "str" THEN Contains(value.v, user)
    ELSE \E i \in DOMAIN value.v : value.v[i] = user

\* has_user looking at users only
has_user_users_only(self, user) ==
    LET users == __getattribute__(self, "users").ret
    IN  Bool(users.t # "None" /\ In(user, users))

\* Group.has_user
has_user(self, user) ==
    LET users == __getattribute__(self, "users").ret
        member_ids == __getattribute__(self, "member_ids").ret
    IN  IF users.t # "None" /\ In(user, users) THEN Bool(TRUE)
        ELSE IF member_ids.t # "None" /\ In(user, member_ids) THEN Bool(TRUE)
        ELSE Bool(FALSE)

-----------------------------------------------------------------------------
(* base/__init__.py: BaseOpenDirectory, the directory handle *)

Handles == {"od1", "od2"}

\* BaseOpenDirectory.config of the two handles: one configures its base dn
\* only, one its server too
Config(od) ==
    CASE od = "od1" -> [OPEN_DIRECTORY_BASE_DN |-> "dc=example,dc=com"]
      [] od = "od2" -> [OPEN_DIRECTORY_SERVER |-> "od.example.org",
                        OPEN_DIRECTORY_BASE_DN |-> "dc=od,dc=example,dc=org"]

OpenDirectory(od) == [t |-> "OpenDirectory", id |-> od]
Connection(id) == [t |-> "Connection", id |-> id]

_default_server == "localhost"
_default_base_dn == ""

\* BaseOpenDirectory.server_url
server_url(od) ==
    IF "OPEN_DIRECTORY_SERVER" \in DOMAIN Config(od)
    THEN Config(od).OPEN_DIRECTORY_SERVER
    ELSE _default_server

\* utils.base_dn_from_url: 'a.b.c' gives 'dc=a,dc=b,dc=c'; both handles
\* configure their base dn, so no behaviour here depends on it
RECURSIVE base_dn_from_url(_)
base_dn_from_url(url) ==
    LET dots == {i \in 1..Len(url) : SubSeq(url, i, i) = "."}
    IN  IF url = "" THEN ""
        ELSE IF dots = {} THEN "dc=" \o url
        ELSE LET i == CHOOSE d \in dots : \A e \in dots : d <= e
             IN  "dc=" \o SubSeq(url, 1, i - 1) \o ","
                     \o base_dn_from_url(SubSeq(url, i + 1, Len(url)))

\* BaseOpenDirectory.base_dn
base_dn(od) ==
    LET rv == IF "OPEN_DIRECTORY_BASE_DN" \in DOMAIN Config(od)
              THEN Config(od).OPEN_DIRECTORY_BASE_DN
              ELSE base_dn_from_url(server_url(od))
    IN  IF rv # "" THEN rv ELSE _default_base_dn

\* the connections and the per-context attribute as one value w, so that the
\* properties below can create a connection while they are evaluated
World == [connections |-> connections, ctx_connection |-> ctx_connection]

\* ldap3.Connection(server, ...): a new connection object, the last of w
NewConnection(od, by, w) ==
    [w EXCEPT !.connections =
        Append(@, [server |-> server_url(od), by |-> by, closed |-> FALSE])]

\* BaseOpenDirectory.connect: a connection the caller manages
connect(od, w) ==
    LET w1 == NewConnection(od, "connect", w)
    IN  [ret |-> Connection(Len(w1.connections)), w |-> w1]

\* _app_ctx_stack.top: the innermost application context, 0 for None
top == IF _app_ctx_stack = <<>> THEN 0 ELSE _app_ctx_stack[Len(_app_ctx_stack)]

\* connection without the hasattr test: every access inside an application
\* context connects again and replaces the stored connection
BaseOpenDirectory_connection_unshared(od, w) ==
    IF top = 0 THEN [ret |-> None, w |-> w]
    ELSE LET c == connect(od, w)
         IN  [ret |-> c.ret,
              w |-> [c.w EXCEPT !.ctx_connection[top] = c.ret.id]]

\* connection keeping one connection per handle: a stored connection to
\* another handle's server is replaced by a new one to its own
BaseOpenDirectory_connection_per_handle(od, w) ==
    IF top = 0 THEN [ret |-> None, w |-> w]
    ELSE IF w.ctx_connection[top] = 0
            \/ w.connections[w.ctx_connection[top]].server # server_url(od)
    THEN LET c == connect(od, w)
         IN  [ret |-> c.ret,
              w |-> [c.w EXCEPT !.ctx_connection[top] = c.ret.id]]
    ELSE [ret |-> Connection(w.ctx_connection[top]), w |-> w]

\* BaseOpenDirectory.connection: the connection stored on the current
\* application context, created on the first access
BaseOpenDirectory_connection(od, w) ==
    IF top = 0 THEN [ret |-> None, w |-> w]
    ELSE IF w.ctx_connection[top] = 0
    THEN LET c == connect(od, w)
         IN  [ret |-> c.ret,
              w |-> [c.w EXCEPT !.ctx_connection[top] = c.ret.id]]
    ELSE [ret |-> Connection(w.ctx_connection[top]), w |-> w]

\* connection_ctx with the shared connection inside the with statement too:
\* whatever it yields is closed when the block is left
BaseOpenDirectory_connection_ctx_closing(od, w) ==
    LET c == BaseOpenDirectory_connection(od, w)
    IN  IF c.ret.t # "None"
        THEN [ret |-> c.ret, w |-> c.w, temp |-> c.ret.id]
        ELSE LET w1 == NewConnection(od, "connection_ctx", c.w)
             IN  [ret |-> Connection(Len(w1.connections)), w |-> w1,
                  temp |-> Len(w1.connections)]

\* BaseOpenDirectory.connection_ctx up to its yield: the shared connection,
\* else a connection of its own (temp, 0 when it opened none)
BaseOpenDirectory_connection_ctx(od, w) ==
    LET c == BaseOpenDirectory_connection(od, w)
    IN  IF c.ret.t # "None"
        THEN LET c2 == BaseOpenDirectory_connection(od, c.w)
             IN  [ret |-> c2.ret, w |-> c2.w, temp |-> 0]
        ELSE LET w1 == NewConnection(od, "connection_ctx", c.w)
             IN  [ret |-> Connection(Len(w1.connections)), w |-> w1,
                  temp |-> Len(w1.connections)]

\* leaving a connection_ctx block: `with ldap3.Connection(...)` closes the
\* connection it opened, a yielded shared connection is left alone
ExitCtx(temp, w) ==
    IF temp = 0 THEN w ELSE [w EXCEPT !.connections[temp].closed = TRUE]

-----------------------------------------------------------------------------
(* query/base_query.py: BaseQuery, the query builder *)

Class(cls) == [t |-> "class", cls |-> cls]

_default_search_filter == "(objectClass=*)"

\* the setters: the outcome of the assignment, ret the new private value

\* the model setter binding nothing
set_model_keeping(value) ==
    IF Truthy(value) /\ value.t \notin {"instance", "class"}
    THEN Raise("TypeError") ELSE Return(_model)

\* BaseQuery.model (setter)
set_model(value) ==
    IF Truthy(value)
    THEN IF value.t = "instance" THEN Return(Class(value.cls))
         ELSE IF value.t = "class" THEN Return(value)
         ELSE Raise("TypeError")
    ELSE Return(_model)

\* BaseQuery.open_directory (setter)
set_open_directory(value) ==
    IF value.t # "None"
    THEN IF value.t = "OpenDirectory" THEN Return(value) ELSE Raise("TypeError")
    ELSE Return(_open_directory)

\* BaseQuery.search_base (setter)
set_search_base(value) ==
    IF value.t # "None" THEN Return(Str(value.v)) ELSE Return(_search_base)

\* the filter setter assigning None too
set_search_filter_clearing(value) ==
    IF value.t # "None" THEN Return(Str(value.v)) ELSE Return(None)

\* BaseQuery.search_filter (setter)
set_search_filter(value) ==
    IF value.t # "None" THEN Return(Str(value.v)) ELSE Return(_search_filter)

\* BaseQuery.ldap_attributes (setter): the str items of an iterable, or the
\* one string
set_ldap_attributes(value) ==
    IF value.t # "None"
    THEN IF value.t # "str"
         THEN LET strs == SelectSeq(value.v, LAMBDA x : x.t = "str")
              IN  Return(List([i \in 1..Len(strs) |-> strs[i].v]))
         ELSE Return(List(<<value.v>>))
    ELSE Return(_ldap_attributes)

\* BaseQuery.connection (setter)
set_connection(value) ==
    IF Truthy(value)
    THEN IF value.t = "Connection" THEN Return(value) ELSE Raise("TypeError")
    ELSE Return(_connection)

\* BaseQuery.model (getter)
model == _model

\* BaseQuery.open_directory (getter)
open_directory == _open_directory

\* search_base without the test for 'cn=' in the model's query_cn: the two
\* parts are joined as they are
search_base_unprefixed ==
    IF _search_base.t = "None"
    THEN LET od_base == IF open_directory.t = "None" THEN None
                        ELSE Str(base_dn(open_directory.id))
             model_cn == IF model.t = "None" THEN None ELSE query_cn(model.cls)
         IN  IF model_cn.t # "None" /\ od_base.t # "None"
             THEN Str(model_cn.v \o "," \o od_base.v)
             ELSE IF od_base.t # "None" THEN od_base
             ELSE _search_base
    ELSE _search_base

\* BaseQuery.search_base (getter)
search_base ==
    IF _search_base.t = "None"
    THEN LET od_base == IF open_directory.t = "None" THEN None
                        ELSE Str(base_dn(open_directory.id))
             model_cn == IF model.t = "None" THEN None ELSE query_cn(model.cls)
         IN  IF model_cn.t # "None" /\ od_base.t # "None"
             THEN IF ~Contains(model_cn.v, "cn=")
                  THEN Str("cn=" \o model_cn.v \o "," \o od_base.v)
                  ELSE Str(model_cn.v \o "," \o od_base.v)
             ELSE IF od_base.t # "None" THEN od_base
             ELSE _search_base
    ELSE _search_base

\* BaseQuery.search_filter (getter)
search_filter ==
    IF _search_filter.t # "None" THEN Str(_search_filter.v)
    ELSE Str(_default_search_filter)

\* ldap_attributes without the fallback to the model's ldap_keys
ldap_attributes_explicit_only ==
    IF _ldap_attributes.t # "None" THEN Tuple(_ldap_attributes.v) ELSE None

\* BaseQuery.ldap_attributes (getter)
ldap_attributes ==
    LET attrs == IF _ldap_attributes.t = "None"
                 THEN IF model.t = "None" THEN None ELSE ldap_keys(model.cls)
                 ELSE _ldap_attributes
    IN  IF attrs.t # "None" THEN Tuple(attrs.v) ELSE None

\* BaseQuery.connection (getter), with _connection as the setter in _query
\* left it: the explicit connection, else the handle's shared connection
connection(explicit, w) ==
    IF explicit.t = "None"
    THEN IF open_directory.t = "None" THEN [ret |-> None, w |-> w]
         ELSE BaseOpenDirectory_connection(open_directory.id, w)
    ELSE [ret |-> explicit, w |-> w]

\* connection_ctx without the elif branch: it yields the resolved connection
\* and never asks the handle for a temporary one
connection_ctx_resolved_only(explicit, w) ==
    LET c == connection(explicit, w)
    IN  IF c.ret.t # "None"
        THEN LET c2 == connection(explicit, c.w)
             IN  [ret |-> c2.ret, w |-> c2.w, temp |-> 0]
        ELSE [ret |-> None, w |-> c.w, temp |-> 0]

\* BaseQuery.connection_ctx up to its yield
connection_ctx(explicit, w) ==
    LET c == connection(explicit, w)
    IN  IF c.ret.t # "None"
        THEN LET c2 == connection(explicit, c.w)
             IN  [ret |-> c2.ret, w |-> c2.w, temp |-> 0]
        ELSE IF open_directory.t # "None"
        THEN BaseOpenDirectory_connection_ctx(open_directory.id, c.w)
        ELSE [ret |-> None, w |-> c.w, temp |-> 0]

\* the test of _query with all() in place of any(): every attribute has a
\* value
HasAllValues(entry) ==
    \A i \in DOMAIN entry.entry_attributes_as_dict :
        Len(entry.entry_attributes_as_dict[i][2].v) > 0

\* the test of _query on an entry: some attribute has a value
HasValues(entry) ==
    \E i \in DOMAIN entry.entry_attributes_as_dict :
        Len(entry.entry_attributes_as_dict[i][2].v) > 0

\* the with block of _query yielding every entry whatever its values
_query_with_unfiltered(ctx, entries) ==
    [exc |-> "",
     yields |-> IF ctx.ret.t # "None" THEN entries ELSE <<>>,
     searches |-> IF ctx.ret.t # "None"
                  THEN << [connection |-> ctx.ret.id,
                           search_base |-> search_base,
                           search_filter |-> search_filter,
                           attributes |-> ldap_attributes] >>
                  ELSE <<>>,
     w |-> ExitCtx(ctx.temp, ctx.w)]

\* the with block of BaseQuery._query, ctx being what connection_ctx
\* yielded and entries being conn.entries after the search: the entries it
\* yields, the search calls it made, the world it leaves.  The block is left
\* when the generator ends, or when first drops it after one entry and the
\* interpreter finalizes it
_query_with(ctx, entries) ==
    [exc |-> "",
     yields |-> IF ctx.ret.t # "None"
                THEN SelectSeq(entries, HasValues) ELSE <<>>,
     searches |-> IF ctx.ret.t # "None"
                  THEN << [connection |-> ctx.ret.id,
                           search_base |-> search_base,
                           search_filter |-> search_filter,
                           attributes |-> ldap_attributes] >>
                  ELSE <<>>,
     w |-> ExitCtx(ctx.temp, ctx.w)]

\* _query searching through the override without keeping it
_query_override_once(override, entries, w) ==
    LET set == IF override.t # "None" THEN set_connection(override)
               ELSE Return(_connection)
    IN  IF set.exc # ""
        THEN [run |-> [exc |-> set.exc, yields |-> <<>>, searches |-> <<>>,
                       w |-> w],
              _connection |-> _connection]
        ELSE [run |-> _query_with(connection_ctx(set.ret, w), entries),
              _connection |-> _connection]

\* BaseQuery._query run to its end: the override is assigned, then the with
\* block runs; _connection is the value the assignment leaves
_query(override, entries, w) ==
    LET set == IF override.t # "None" THEN set_connection(override)
               ELSE Return(_connection)
    IN  IF set.exc # ""
        THEN [run |-> [exc |-> set.exc, yields |-> <<>>, searches |-> <<>>,
                       w |-> w],
              _connection |-> _connection]
        ELSE [run |-> _query_with(connection_ctx(set.ret, w), entries),
              _connection |-> set.ret]

\* BaseQuery.first, run being what its self._query(connection) did
first(run, convert) ==
    IF run.exc # "" THEN Raise(run.exc)
    ELSE IF convert /\ model.t # "None"
    THEN from_entry(model.cls, IF run.yields = <<>> THEN None ELSE run.yields[1])
    ELSE Return(IF run.yields = <<>> THEN None ELSE run.yields[1])

\* BaseQuery.all, run being what its self._query(connection) did
all(run, convert) ==
    IF run.exc # "" THEN Raise(run.exc)
    ELSE IF Len(run.yields) > 0 /\ convert /\ model.t # "None"
    THEN Return(Tuple([i \in 1..Len(run.yields) |->
                          from_entry(model.cls, run.yields[i]).ret]))
    ELSE Return(Tuple(run.yields))

-----------------------------------------------------------------------------
(* query/__init__.py: Query *)

\* the builder itself, as a returned value
Self == [t |-> "Query"]

\* chainable_method: the wrapped method's outcome out is dropped and self
\* returned; an exception of the method propagates
chainable_method(out) == IF out.exc = "" THEN Return(Self) ELSE out

\* _parse_filter_kwargs without the translation through the model: every
\* criterion name is used as given
_parse_filter_kwargs_verbatim(kwargs) ==
    [exc |-> "",
     parsed |-> [i \in DOMAIN kwargs |->
                    "(" \o kwargs[i][1] \o "=" \o kwargs[i][2] \o ")"]]

\* _parse_filter_kwargs using a name the model does not know as given
_parse_filter_kwargs_lenient(kwargs) ==
    [exc |-> "",
     parsed |-> [i \in DOMAIN kwargs |->
         "(" \o (IF model.t # "None"
                    /\ attribute_for_key(model.cls, kwargs[i][1]).t = "Attribute"
                 THEN attribute_for_key(model.cls, kwargs[i][1]).ldap_key
                 ELSE kwargs[i][1])
             \o "=" \o kwargs[i][2] \o ")"]]

\* Query._parse_filter_kwargs: the '(key=value)' strings in the order of
\* kwargs.items(), or the error of reading ldap_key off what
\* attribute_for_key returned
_parse_filter_kwargs(kwargs) ==
    IF model.t # "None"
       /\ \E i \in DOMAIN kwargs :
             attribute_for_key(model.cls, kwargs[i][1]).t # "Attribute"
    THEN [exc |-> "AttributeError", parsed |-> <<>>]
    ELSE [exc |-> "",
          parsed |-> [i \in DOMAIN kwargs |->
              "(" \o (IF model.t # "None"
                      THEN attribute_for_key(model.cls, kwargs[i][1]).ldap_key
                      ELSE kwargs[i][1])
                  \o "=" \o kwargs[i][2] \o ")"]]

\* Query._filter_string_from_kwargs
_filter_string_from_kwargs(kwargs) ==
    LET p == _parse_filter_kwargs(kwargs)
    IN  IF p.exc # "" THEN Raise(p.exc)
        ELSE IF Len(p.parsed) > 1 THEN Return(Str("(&" \o join(p.parsed) \o ")"))
        ELSE IF Len(p.parsed) = 1 THEN Return(Str(p.parsed[1]))
        ELSE Return(None)

\* Query.filter: the outcome, ret the new _search_filter
filter(args, kwargs) ==
    LET strs == SelectSeq(args, LAMBDA x : x.t = "str")
        string == IF strs # <<>> THEN Return(strs[1])
                  ELSE IF Len(kwargs) > 0 THEN _filter_string_from_kwargs(kwargs)
                  ELSE Return(None)
    IN  IF string.exc # "" THEN string ELSE set_search_filter(string.ret)

-----------------------------------------------------------------------------
(* the inputs the calls are tried on *)


\* the names a caller addresses a model of class cls by: its field names,
\* its ldap keys and a key the class does not declare
KeysIn(cls) ==
    keys(ldap_attribute_map(cls)) \cup values(ldap_attribute_map(cls))
        \cup {"objectClass"}

\* the classes SpecModel makes instances of: single-valued and multi-valued
\* attributes, the default and an overridden query_cn
InstanceClasses == {"User", "ComputerGroup"}

\* keys that are no field of any class: another class member, and no member
OtherKeysIn == {"has_user", "__module__", "nope"}

AllKeysIn == UNION {KeysIn(cls) : cls \in Classes} \cup OtherKeysIn

\* the raw values the directory reports: every attribute is a list
ValuesIn == {List(<<>>), List(<<"a", "b">>)}

\* keyword arguments of a constructor call: by field name, by ldap key, and
\* with a key the class does not declare
KwargsIn(cls) ==
    LET m == ldap_attribute_map(cls)
    IN  { <<>>,
          << <<m[1][1], Str("a")>> >>,
          << <<m[2][2], List(<<"a", "b">>)>>, <<"objectClass", List(<<"a", "b">>)>> >> }

\* entries of the directory for class cls: the all-empty pseudo record, a
\* record with every attribute filled and one more key, a record with no
\* attribute, and a record with one attribute filled
EntriesIn(cls) ==
    LET m == ldap_attribute_map(cls)
    IN  { Entry([i \in 1..Len(m) |-> <<m[i][2], List(<<>>)>>]),
          Entry([i \in 1..Len(m) |-> <<m[i][2], List(<<"a", "b">>)>>]
                    \o << <<"objectClass", List(<<"a", "b">>)>> >>),
          Entry(<<>>),
          Entry([i \in 1..Len(m) |->
                    <<m[i][2], IF i = 1 THEN List(<<"a", "b">>) ELSE List(<<>>)>>]) }

\* what conn.entries holds after a search for class cls: nothing, only the
\* all-empty pseudo record, and that record before a partly filled and a
\* filled one
ResultsIn(cls) ==
    LET m == ldap_attribute_map(cls)
        empty == Entry([i \in 1..Len(m) |-> <<m[i][2], List(<<>>)>>])
        full == Entry([i \in 1..Len(m) |-> <<m[i][2], List(<<"a", "b">>)>>]
                          \o << <<"objectClass", List(<<"a", "b">>)>> >>)
        one == Entry([i \in 1..Len(m) |->
                   <<m[i][2], IF i = 1 THEN List(<<"a", "b">>) ELSE List(<<>>)>>])
    IN  { <<>>, <<empty>>, <<empty, one, full>> }

\* the constructor calls SpecSearch starts from: Query(), a model only, a
\* handle only, the User model on the handle with base dn dc=example,dc=com,
\* and a call that also sets the search base, the filter and the attributes
QueriesIn ==
    LET q == [open_directory |-> None, model |-> None, search_base |-> None,
              search_filter |-> None, connection |-> None,
              ldap_attributes |-> None]
    IN  { q,
          [q EXCEPT !.model = Class("User")],
          [q EXCEPT !.open_directory = OpenDirectory("od1")],
          [q EXCEPT !.open_directory = OpenDirectory("od1"),
                    !.model = Class("User")],
          [q EXCEPT !.open_directory = OpenDirectory("od2"),
                    !.model = Class("ComputerGroup"),
                    !.search_base = Str("ou=x"),
                    !.search_filter = Str("(cn=x)"),
                    !.ldap_attributes = List(<<Str("cn")>>)] }

\* bounds of a behaviour: the application contexts pushed and the
\* connections created, in SpecScope and in SpecSearch
MaxScopes == 2
MaxConnections == 3
MaxSearchScopes == 1
MaxSearchConnections == 2

-----------------------------------------------------------------------------
(* the state after construction: a Query() with nothing set, no application *)
(* context, no connection, no model instance                                *)

Init ==
    /\ obj = None
    /\ _search_base = None
    /\ _search_filter = None
    /\ _ldap_attributes = None
    /\ _model = None
    /\ _connection = None
    /\ _open_directory = None
    /\ _app_ctx_stack = <<>>
    /\ ctx_connection = <<>>
    /\ connections = <<>>
    /\ last = [op |-> "init"]

-----------------------------------------------------------------------------
(* SpecModel: calls on a model class and on one instance of it *)

\* obj = cls(**kwargs), the one instance a behaviour follows
New(cls, kwargs) ==
    /\ obj.t = "None"
    /\ obj' = __init__(cls, kwargs)
    /\ last' = [op |-> "__init__", cls |-> cls, kwargs |-> kwargs,
                out |-> Return(obj')]
    /\ UNCHANGED queryVars

\* obj = cls.from_entry(entry)
FromEntry(cls, entry) ==
    /\ obj.t = "None"
    /\ \E out \in {from_entry(cls, entry)} :
        /\ obj' = IF out.exc = "" THEN out.ret ELSE obj
        /\ last' = [op |-> "from_entry", cls |-> cls, entry |-> entry, out |-> out]
    /\ UNCHANGED queryVars

\* obj.key = value
SetAttr(key, value) ==
    /\ obj.t = "instance"
    /\ key \in KeysIn(obj.cls) \ {"objectClass"}
    /\ obj' = __setattr__(obj, key, value)
    /\ last' = [op |-> "__setattr__", key |-> key, value |-> value,
                out |-> Return(None)]
    /\ UNCHANGED queryVars

\* obj.key
GetAttr(key) ==
    /\ obj.t = "instance"
    /\ key \in KeysIn(obj.cls) \cup OtherKeysIn
    /\ last' = [op |-> "__getattribute__", key |-> key,
                out |-> __getattribute__(obj, key)]
    /\ UNCHANGED <<obj, queryVars>>

\* cls.attribute_for_key(key): a class method, called here before any
\* instance exists
AttributeForKey(cls, key) ==
    /\ obj.t = "None"
    /\ last' = [op |-> "attribute_for_key", cls |-> cls, key |-> key,
                out |-> Return(attribute_for_key(cls, key))]
    /\ UNCHANGED <<obj, queryVars>>

NextModel ==
    \/ \E cls \in InstanceClasses : \E kwargs \in KwargsIn(cls) : New(cls, kwargs)
    \/ \E cls \in InstanceClasses : \E entry \in EntriesIn(cls) \cup {None} :
          FromEntry(cls, entry)
    \/ \E key \in AllKeysIn : \E value \in ValuesIn : SetAttr(key, value)
    \/ \E key \in AllKeysIn : GetAttr(key)
    \/ \E cls \in Classes : \E key \in KeysIn(cls) \cup OtherKeysIn :
          AttributeForKey(cls, key)

SpecModel == Init /\ [][NextModel]_vars

-----------------------------------------------------------------------------
(* SpecResolve: the same key in writes, reads and attribute_for_key, on a   *)
(* class of the repository and on one whose field names and ldap keys cross *)

ResolveClasses == {"User", "Crossed"}

ResolveKeysIn == UNION {KeysIn(cls) : cls \in ResolveClasses}

NextResolve ==
    \/ \E cls \in ResolveClasses : New(cls, <<>>)
    \/ \E key \in ResolveKeysIn : \E value \in ValuesIn : SetAttr(key, value)
    \/ \E key \in ResolveKeysIn : GetAttr(key)
    \/ \E cls \in ResolveClasses : \E key \in KeysIn(cls) :
          AttributeForKey(cls, key)

SpecResolve == Init /\ [][NextResolve]_vars

-----------------------------------------------------------------------------
(* SpecGroup: one Group, its member lists and has_user *)

\* the names the two member lists are addressed by: field name and ldap key
MemberKeysIn == {"users", "memberUid", "member_ids", "apple-group-memberguid"}

\* values of a member list: no member, two, one, and a string where the
\* directory reports a list
MembersIn == {List(<<>>), List(<<"a", "b">>), List(<<"c">>), Str("abc")}

\* constructor calls: Group(), and Group(users=[...], member_ids=[...])
GroupKwargsIn ==
    { <<>>,
      << <<"users", List(<<"a", "b">>)>>, <<"member_ids", List(<<"c">>)>> >> }

\* the users asked for: in the one list, in the other, in none
UsersIn == {"a", "c", "x"}

\* obj.has_user(user)
HasUser(user) ==
    /\ obj.t = "instance"
    /\ obj.cls = "Group"
    /\ last' = [op |-> "has_user", user |-> user,
                out |-> Return(has_user(obj, user))]
    /\ UNCHANGED <<obj, queryVars>>

NextGroup ==
    \/ \E kwargs \in GroupKwargsIn : New("Group", kwargs)
    \/ \E entry \in EntriesIn("Group") : FromEntry("Group", entry)
    \/ \E key \in MemberKeysIn : \E value \in MembersIn : SetAttr(key, value)
    \/ \E user \in UsersIn : HasUser(user)

SpecGroup == Init /\ [][NextGroup]_vars

-----------------------------------------------------------------------------
(* SpecScope: application contexts and the handles' shared connection *)

modelVars == <<obj>>
builderVars == <<_search_base, _search_filter, _ldap_attributes, _model,
                 _open_directory>>

\* flask pushes an application context: a unit of work begins
PushScope(max) ==
    /\ Len(ctx_connection) < max
    /\ _app_ctx_stack' = Append(_app_ctx_stack, Len(ctx_connection) + 1)
    /\ ctx_connection' = Append(ctx_connection, 0)
    /\ last' = [op |-> "push"]
    /\ UNCHANGED <<modelVars, builderVars, _connection, connections>>

\* flask pops the innermost application context
PopScope ==
    /\ _app_ctx_stack # <<>>
    /\ _app_ctx_stack' = SubSeq(_app_ctx_stack, 1, Len(_app_ctx_stack) - 1)
    /\ last' = [op |-> "pop"]
    /\ UNCHANGED <<modelVars, builderVars, _connection, ctx_connection,
                   connections>>

\* od.connection
OdConnection(od, max) ==
    /\ \E c \in {BaseOpenDirectory_connection(od, World)} :
        /\ Len(c.w.connections) <= max
        /\ connections' = c.w.connections
        /\ ctx_connection' = c.w.ctx_connection
        /\ last' = [op |-> "connection", od |-> od, out |-> Return(c.ret)]
    /\ UNCHANGED <<modelVars, builderVars, _connection, _app_ctx_stack>>

\* od.connect()
OdConnect(od, max) ==
    /\ \E c \in {connect(od, World)} :
        /\ Len(c.w.connections) <= max
        /\ connections' = c.w.connections
        /\ last' = [op |-> "connect", od |-> od, out |-> Return(c.ret)]
    /\ UNCHANGED <<modelVars, builderVars, _connection, _app_ctx_stack,
                   ctx_connection>>

NextScope ==
    \/ PushScope(MaxScopes)
    \/ PopScope
    \/ \E od \in Handles : OdConnection(od, MaxConnections)
    \/ \E od \in Handles : OdConnect(od, MaxConnections)

SpecScope == Init /\ [][NextScope]_vars

-----------------------------------------------------------------------------
(* SpecSearch: searches of a configured builder *)

\* BaseQuery.__init__: the six setters on a new object
InitSearch ==
    /\ obj = None
    /\ _app_ctx_stack = <<>>
    /\ ctx_connection = <<>>
    /\ connections = <<>>
    /\ last = [op |-> "init"]
    /\ \E q \in QueriesIn :
        /\ _search_base = IF q.search_base.t = "None" THEN None
                          ELSE set_search_base(q.search_base).ret
        /\ _search_filter = IF q.search_filter.t = "None" THEN None
                            ELSE set_search_filter(q.search_filter).ret
        /\ _connection = IF q.connection.t = "None" THEN None
                         ELSE set_connection(q.connection).ret
        /\ _ldap_attributes = IF q.ldap_attributes.t = "None" THEN None
                              ELSE set_ldap_attributes(q.ldap_attributes).ret
        /\ _model = IF q.model.t = "None" THEN None
                    ELSE set_model(q.model).ret
        /\ _open_directory = IF q.open_directory.t = "None" THEN None
                             ELSE set_open_directory(q.open_directory).ret

\* the class whose records the directory reports
ResultClass == IF _model.t = "None" THEN "User" ELSE _model.cls

\* the connections a caller can pass to first and all: None, or one it
\* made with connect()
OverridesIn == {None} \cup {Connection(i) : i \in 1..MaxSearchConnections}

\* query.first(override, convert)
First(override, convert, entries) ==
    /\ override.t = "Connection" =>
          (override.id \in DOMAIN connections
              /\ connections[override.id].by = "connect")
    /\ \E q \in {_query(override, entries, World)} :
        /\ Len(q.run.w.connections) <= MaxSearchConnections
        /\ _connection' = q._connection
        /\ connections' = q.run.w.connections
        /\ ctx_connection' = q.run.w.ctx_connection
        /\ last' = [op |-> "first", connection |-> override, convert |-> convert,
                    entries |-> entries, searches |-> q.run.searches,
                    out |-> first(q.run, convert)]
    /\ UNCHANGED <<modelVars, builderVars, _app_ctx_stack>>

\* query.all(override, convert)
All(override, convert, entries) ==
    /\ override.t = "Connection" =>
          (override.id \in DOMAIN connections
              /\ connections[override.id].by = "connect")
    /\ \E q \in {_query(override, entries, World)} :
        /\ Len(q.run.w.connections) <= MaxSearchConnections
        /\ _connection' = q._connection
        /\ connections' = q.run.w.connections
        /\ ctx_connection' = q.run.w.ctx_connection
        /\ last' = [op |-> "all", connection |-> override, convert |-> convert,
                    entries |-> entries, searches |-> q.run.searches,
                    out |-> all(q.run, convert)]
    /\ UNCHANGED <<modelVars, builderVars, _app_ctx_stack>>

\* the caller closes the connection it made and gave to the builder
Unbind(id) ==
    /\ _connection = Connection(id)
    /\ connections[id].by = "connect"
    /\ ~connections[id].closed
    /\ connections' = [connections EXCEPT ![id].closed = TRUE]
    /\ last' = [op |-> "unbind", id |-> id]
    /\ UNCHANGED <<modelVars, builderVars, _connection, _app_ctx_stack,
                   ctx_connection>>

NextSearch ==
    \/ PushScope(MaxSearchScopes)
    \/ PopScope
    \/ OdConnect("od1", MaxSearchConnections)
    \/ \E override \in OverridesIn : \E convert \in BOOLEAN :
          \E entries \in ResultsIn(ResultClass) : First(override, convert, entries)
    \/ \E override \in OverridesIn : \E convert \in BOOLEAN :
          \E entries \in ResultsIn(ResultClass) : All(override, convert, entries)

SpecSearch == InitSearch /\ [][NextSearch]_vars

\* SpecOverride: searches for the raw entries with and without an override,
\* of a directory that reports three entries, while the caller makes and
\* closes connections
NextOverride ==
    \/ PushScope(MaxSearchScopes)
    \/ PopScope
    \/ OdConnect("od1", MaxSearchConnections)
    \/ \E id \in DOMAIN connections : Unbind(id)
    \/ \E override \in OverridesIn : \E convert \in {FALSE} :
          \E entries \in {r \in ResultsIn(ResultClass) : Len(r) = 3} :
              First(override, convert, entries)
    \/ \E override \in OverridesIn : \E convert \in {FALSE} :
          \E entries \in {r \in ResultsIn(ResultClass) : Len(r) = 3} :
              All(override, convert, entries)

SpecOverride == InitSearch /\ [][NextOverride]_vars

-----------------------------------------------------------------------------
(* SpecBuilder: assignments to the settings of a builder, and Query.filter *)

scopeVars == <<_connection, _app_ctx_stack, ctx_connection, connections>>

\* values assigned to model: nothing, the classes, an instance, a string and
\* the empty string
ModelsIn == {None, Class("User"), Class("ComputerGroup"), NewInstance("Group"),
             Str("User"), Str("")}

\* values assigned to open_directory: nothing, the handles, a string and the
\* empty string
HandlesIn == {None, Str("od"), Str("")}
                 \cup {OpenDirectory(od) : od \in Handles}

\* connections the caller makes with od.connect() before assigning them
MaxBuilderConnections == 1

\* values assigned to connection: nothing, a connection the caller made, a
\* string and the empty string
ConnectionsIn == {None, Str("x"), Str("")}
                     \cup {Connection(i) : i \in 1..MaxBuilderConnections}

\* values assigned to search_base and to search_filter
SearchBasesIn == {None, Str("ou=x")}
SearchFiltersIn == {None, Str("(objectClass=*)")}

\* values assigned to ldap_attributes: nothing, one string, a list
LdapAttributesIn == {None, Str("cn"), List(<<Str("cn"), Str("uid")>>)}

\* positional arguments of filter
ArgsIn == {<<>>, <<Str("(cn=x)")>>}

\* criteria of filter, as the ordered keyword arguments: by field name, by
\* ldap key, two and three at once, the same two in both orders
CriteriaIn ==
    { <<>>,
      << <<"username", "alice">> >>,
      << <<"uid", "alice">> >>,
      << <<"username", "alice">>, <<"full_name", "Alice A">> >>,
      << <<"full_name", "Alice A">>, <<"username", "alice">> >>,
      << <<"memberUid", "m1">>, <<"id", "1">>, <<"computer_ids", "c1">> >> }

\* query(value), Query.__call__: self.model = value
Call(value) ==
    /\ \E out \in {set_model(value)} :
        /\ _model' = IF out.exc = "" THEN out.ret ELSE _model
        /\ last' = [op |-> "__call__", value |-> value, exc |-> out.exc,
                    ret |-> chainable_method(out).ret]
    /\ UNCHANGED <<modelVars, scopeVars, _search_base, _search_filter,
                   _ldap_attributes, _open_directory>>

\* query.open_directory = value
SetOpenDirectory(value) ==
    /\ \E out \in {set_open_directory(value)} :
        /\ _open_directory' = IF out.exc = "" THEN out.ret ELSE _open_directory
        /\ last' = [op |-> "open_directory", value |-> value, exc |-> out.exc]
    /\ UNCHANGED <<modelVars, scopeVars, _search_base, _search_filter,
                   _ldap_attributes, _model>>

\* query.connection = value; a connection is one the caller made
SetConnection(value) ==
    /\ value.t = "Connection" =>
          (value.id \in DOMAIN connections
              /\ connections[value.id].by = "connect")
    /\ \E out \in {set_connection(value)} :
        /\ _connection' = IF out.exc = "" THEN out.ret ELSE _connection
        /\ last' = [op |-> "connection.setter", value |-> value,
                    exc |-> out.exc]
    /\ UNCHANGED <<modelVars, builderVars, _app_ctx_stack, ctx_connection,
                   connections>>

\* query.search_base = value
SetSearchBase(value) ==
    /\ _search_base' = set_search_base(value).ret
    /\ last' = [op |-> "search_base", value |-> value, exc |-> ""]
    /\ UNCHANGED <<modelVars, scopeVars, _search_filter, _ldap_attributes,
                   _model, _open_directory>>

\* query.search_filter = value
SetSearchFilter(value) ==
    /\ _search_filter' = set_search_filter(value).ret
    /\ last' = [op |-> "search_filter", value |-> value, exc |-> ""]
    /\ UNCHANGED <<modelVars, scopeVars, _search_base, _ldap_attributes,
                   _model, _open_directory>>

\* query.ldap_attributes = value
SetLdapAttributes(value) ==
    /\ _ldap_attributes' = set_ldap_attributes(value).ret
    /\ last' = [op |-> "ldap_attributes", value |-> value, exc |-> ""]
    /\ UNCHANGED <<modelVars, scopeVars, _search_base, _search_filter,
                   _model, _open_directory>>

\* query.filter(*args, **kwargs)
Filter(args, kwargs) ==
    /\ \E out \in {filter(args, kwargs)} :
        /\ _search_filter' = IF out.exc = "" THEN out.ret ELSE _search_filter
        /\ last' = [op |-> "filter", args |-> args, kwargs |-> kwargs,
                    exc |-> out.exc, ret |-> chainable_method(out).ret]
    /\ UNCHANGED <<modelVars, scopeVars, _search_base, _ldap_attributes,
                   _model, _open_directory>>

NextBuilder ==
    \/ \E value \in ModelsIn : Call(value)
    \/ \E value \in HandlesIn : SetOpenDirectory(value)
    \/ OdConnect("od1", MaxBuilderConnections)
    \/ \E value \in ConnectionsIn : SetConnection(value)
    \/ \E value \in SearchBasesIn : SetSearchBase(value)
    \/ \E value \in SearchFiltersIn : SetSearchFilter(value)
    \/ \E value \in LdapAttributesIn : SetLdapAttributes(value)
    \/ \E args \in ArgsIn : \E kwargs \in CriteriaIn : Filter(args, kwargs)

SpecBuilder == Init /\ [][NextBuilder]_vars

-----------------------------------------------------------------------------
(* SpecCtx: with blocks on the handle's and on the builder's connection_ctx *)

\* the handles whose connection_ctx is entered: the bound one, else od1
CtxHandlesIn ==
    IF _open_directory = None THEN {"od1"} ELSE {_open_directory.id}

\* with od.connection_ctx() as conn: a body that returns, or raises if error
OdConnectionCtx(od, error, max) ==
    /\ \E c \in {BaseOpenDirectory_connection_ctx(od, World)} :
        /\ Len(c.w.connections) <= max
        /\ \E w \in {ExitCtx(c.temp, c.w)} :
            /\ connections' = w.connections
            /\ ctx_connection' = w.ctx_connection
        /\ last' = [op |-> "od.connection_ctx", od |-> od, yielded |-> c.ret,
                    temp |-> c.temp,
                    out |-> IF error THEN Raise("Exception") ELSE Return(None)]
    /\ UNCHANGED <<modelVars, builderVars, _connection, _app_ctx_stack>>

\* with query.connection_ctx() as conn: a body that returns, or raises
ConnectionCtx(error, max) ==
    /\ \E c \in {connection_ctx(_connection, World)} :
        /\ Len(c.w.connections) <= max
        /\ \E w \in {ExitCtx(c.temp, c.w)} :
            /\ connections' = w.connections
            /\ ctx_connection' = w.ctx_connection
        /\ last' = [op |-> "query.connection_ctx", yielded |-> c.ret,
                    temp |-> c.temp,
                    out |-> IF error THEN Raise("Exception") ELSE Return(None)]
    /\ UNCHANGED <<modelVars, builderVars, _connection, _app_ctx_stack>>

NextCtx ==
    \/ PushScope(MaxSearchScopes)
    \/ PopScope
    \/ OdConnect("od1", MaxSearchConnections)
    \/ \E value \in OverridesIn : SetConnection(value)
    \/ \E od \in CtxHandlesIn : \E error \in BOOLEAN :
          OdConnectionCtx(od, error, MaxSearchConnections)
    \/ \E error \in BOOLEAN : ConnectionCtx(error, MaxSearchConnections)

SpecCtx == InitSearch /\ [][NextCtx]_vars

-----------------------------------------------------------------------------
(* The properties, each under the specification named with it *)

\* C1 (SpecBuilder): in every builder state the effective search location is
\* the explicit location if one was set; else, with a model and a handle
\* bound, the model's query location, prefixed with 'cn=' unless it contains
\* 'cn=', a comma, and the handle's base location; else the handle's base
\* location alone; else absent.  User on the handle with base location
\* dc=example,dc=com gives cn=users,dc=example,dc=com.
C1_EffectiveLocation ==
    LET fragment == IF _model = None THEN None ELSE query_cn(_model.cls)
        base == IF _open_directory = None THEN None
                ELSE Str(base_dn(_open_directory.id))
    IN  /\ search_base =
              IF _search_base # None THEN _search_base
              ELSE IF fragment # None /\ base # None
              THEN Str((IF Contains(fragment.v, "cn=") THEN "" ELSE "cn=")
                           \o fragment.v \o "," \o base.v)
              ELSE IF base # None THEN base
              ELSE None
        /\ (_search_base = None /\ _model = Class("User")
               /\ _open_directory = OpenDirectory("od1"))
              => search_base = Str("cn=users,dc=example,dc=com")
        /\ (_search_base = None /\ _model = Class("ComputerGroup")
               /\ _open_directory = OpenDirectory("od2"))
              => search_base = Str("cn=computer_groups,dc=od,dc=example,dc=org")

\* a builder with the User model and the handle od1 bound and no explicit
\* location, whose effective location is the joined one
C1_Witness ==
    /\ _search_base = None
    /\ _model = Class("User")
    /\ _open_directory = OpenDirectory("od1")
    /\ last.op \in {"__call__", "open_directory"}
    /\ search_base = Str("cn=users,dc=example,dc=com")

\* C2 as stated (SpecSearch): a first/all call with no override, no explicit
\* connection and no shared connection of a bound handle (or no handle)
\* issues no search call, raises no error and yields an empty result; every
\* other call issues exactly one search call.
C2_NoSharedConnectionNoSearch ==
    last.op \in {"first", "all"} =>
        IF last.connection = None /\ _connection = None
              /\ (_open_directory = None \/ top = 0)
        THEN /\ last.searches = <<>>
             /\ last.out.exc = ""
             /\ last.out.ret \in {None, Tuple(<<>>)}
        ELSE Len(last.searches) = 1

\* C2 amended (SpecSearch): a first/all call issues no search call exactly
\* when there is no override, no explicit connection and no handle bound;
\* then all returns the empty tuple, and first returns None unless it
\* converts with a bound model, where it raises AttributeError.  With a
\* handle bound outside an application context the one search call goes to
\* a temporary connection of the handle, closed when the call returns; in
\* every other case the one search call goes to the explicit connection,
\* else to the shared connection of the application context.
C2_SearchCalls ==
    last.op \in {"first", "all"} =>
        LET explicit == last.connection # None \/ _connection # None
            none == ~explicit /\ _open_directory = None
            temporary == ~explicit /\ _open_directory # None /\ top = 0
        IN  /\ Len(last.searches) = IF none THEN 0 ELSE 1
            /\ none =>
                  last.out = IF last.op = "all" THEN Return(Tuple(<<>>))
                             ELSE IF last.convert /\ _model # None
                             THEN Raise("AttributeError")
                             ELSE Return(None)
            /\ temporary =>
                  /\ last.searches[1].connection = Len(connections)
                  /\ connections[Len(connections)] =
                        [server |-> server_url(_open_directory.id),
                         by |-> "connection_ctx", closed |-> TRUE]
            /\ (~none /\ ~temporary) =>
                  last.searches[1].connection =
                      IF explicit THEN _connection.id ELSE ctx_connection[top]

\* all() of a builder with a handle bound, outside any application context,
\* has issued its search call
C2_Witness ==
    /\ last.op = "all"
    /\ last.connection = None
    /\ _connection = None
    /\ _open_directory # None
    /\ top = 0
    /\ Len(last.searches) = 1
    /\ connections[last.searches[1].connection].closed

\* C3 (SpecSearch): first() returns None and raises nothing whenever the
\* search yields no entry (no search call was issued, or the directory
\* reported no entry), whatever convert and the bound model are.
C3_FirstAbsentWhenNoMatch ==
    (last.op = "first" /\ (last.searches = <<>> \/ last.entries = <<>>))
        => last.out = Return(None)

\* C4 (SpecSearch): all() returns the reported entries that have at least
\* one non-empty attribute value, in the reported order; each is converted
\* with the bound model when convert is true and a model is bound and is
\* returned raw otherwise; a result with nothing kept is the empty tuple.
C4_AllKeepsNonEmptyInOrder ==
    last.op = "all" =>
        LET reported == IF last.searches = <<>> THEN <<>> ELSE last.entries
            kept == SelectSeq(reported, LAMBDA e :
                       \E i \in DOMAIN e.entry_attributes_as_dict :
                           e.entry_attributes_as_dict[i][2] # List(<<>>))
        IN  /\ last.out.exc = ""
            /\ last.out.ret.t = "tuple"
            /\ Len(last.out.ret.v) = Len(kept)
            /\ \A i \in DOMAIN kept :
                  last.out.ret.v[i] =
                      IF last.convert /\ _model # None
                      THEN __init__(_model.cls, kept[i].entry_attributes_as_dict)
                      ELSE kept[i]

\* all() with conversion on three reported entries, the all-empty one
\* first: the two others come back as model instances, in their order
C4_Witness ==
    /\ last.op = "all"
    /\ last.convert
    /\ _model # None
    /\ last.searches # <<>>
    /\ Len(last.entries) = 3
    /\ Len(last.out.ret.v) = 2
    /\ last.out.ret.v[1] =
          __init__(_model.cls, last.entries[2].entry_attributes_as_dict)
    /\ last.out.ret.v[2] =
          __init__(_model.cls, last.entries[3].entry_attributes_as_dict)

\* C5 (SpecBuilder): filter(**criteria) whose names are declared by the bound
\* model (or with no model bound) sets the filter to '(key=value)' for one
\* criterion and to '(&(k1=v1)(k2=v2)...)' for several, in the order
\* supplied; a name is translated to the model's external key, given as field
\* name or as external key, and is used as given with no model; a string
\* positional argument is stored unchanged and wins over criteria.
C5_FilterFromCriteria ==
    last.op = "filter" =>
        LET strs == SelectSeq(last.args, LAMBDA x : x.t = "str")
            m == ldap_attribute_map(_model.cls)
            declared(k) == _model = None \/ k \in keys(m) \cup values(m)
            external(k) == IF _model = None \/ k \in values(m) THEN k
                           ELSE m[CHOOSE i \in DOMAIN m : m[i][1] = k][2]
            term(i) == "(" \o external(last.kwargs[i][1]) \o "="
                           \o last.kwargs[i][2] \o ")"
            n == Len(last.kwargs)
        IN  /\ strs # <<>> => (last.exc = "" /\ _search_filter = strs[1])
            /\ (strs = <<>> /\ n > 0
                  /\ \A i \in 1..n : declared(last.kwargs[i][1])) =>
                  /\ last.exc = ""
                  /\ n = 1 => _search_filter = Str(term(1))
                  /\ n = 2 => _search_filter =
                                 Str("(&" \o term(1) \o term(2) \o ")")
                  /\ n = 3 => _search_filter =
                                 Str("(&" \o term(1) \o term(2) \o term(3) \o ")")
            /\ (_model = Class("User") /\ last.args = <<>>) =>
                  /\ last.kwargs = << <<"username", "alice">> >>
                        => _search_filter = Str("(uid=alice)")
                  /\ last.kwargs = << <<"username", "alice">>,
                                      <<"full_name", "Alice A">> >>
                        => _search_filter = Str("(&(uid=alice)(cn=Alice A))")

\* filter(username='alice', full_name='Alice A') on a builder bound to User
C5_Witness ==
    /\ last.op = "filter"
    /\ last.exc = ""
    /\ _model = Class("User")
    /\ last.args = <<>>
    /\ last.kwargs = << <<"username", "alice">>, <<"full_name", "Alice A">> >>
    /\ _search_filter = Str("(&(uid=alice)(cn=Alice A))")

\* C6 (SpecSearch): the search call of first/all carries the effective
\* filter, the explicit one if set and else '(objectClass=*)', and the
\* effective fields, the explicit list if set, else the bound model's
\* external keys, else absent; a builder bound to User and to the handle
\* with base location dc=example,dc=com, nothing else set, searches
\* cn=users,dc=example,dc=com with '(objectClass=*)' for User's four keys.
C6_SearchArguments ==
    (last.op \in {"first", "all"} /\ last.searches # <<>>) =>
        LET call == last.searches[1]
        IN  /\ call.search_filter = IF _search_filter # None THEN _search_filter
                                    ELSE Str("(objectClass=*)")
            /\ call.attributes =
                  IF _ldap_attributes # None THEN Tuple(_ldap_attributes.v)
                  ELSE IF _model # None
                  THEN Tuple([i \in DOMAIN ldap_attribute_map(_model.cls) |->
                                 ldap_attribute_map(_model.cls)[i][2]])
                  ELSE None
            /\ (_model = Class("User") /\ _open_directory = OpenDirectory("od1")
                   /\ _search_base = None /\ _search_filter = None
                   /\ _ldap_attributes = None) =>
                  call = [connection |-> call.connection,
                          search_base |-> Str("cn=users,dc=example,dc=com"),
                          search_filter |-> Str("(objectClass=*)"),
                          attributes |-> Tuple(<<"apple-generateduid", "uid",
                                                 "mail", "cn">>)]

\* a search of the builder bound to User and od1 with nothing else set
C6_Witness ==
    /\ last.op \in {"first", "all"}
    /\ last.searches # <<>>
    /\ _model = Class("User")
    /\ _open_directory = OpenDirectory("od1")
    /\ _search_base = None
    /\ _search_filter = None
    /\ _ldap_attributes = None
    /\ last.searches[1].search_base = Str("cn=users,dc=example,dc=com")

\* C7 (SpecModel): reading a declared field, by its name or its external
\* key, whose stored value is a raw sequence: with allow_multiple false the
\* read is None for the empty sequence and the first element otherwise, with
\* allow_multiple true it is the stored sequence as it is.
C7_ReadAppliesMultiplicity ==
    (last.op = "__getattribute__" /\ last.key \in KeysIn(obj.cls) \ {"objectClass"}) =>
        LET m == ldap_attribute_map(obj.cls)
            i == CHOOSE j \in DOMAIN m : last.key \in {m[j][1], m[j][2]}
            descriptor == SelectSeq(ClassVars(obj.cls),
                                    LAMBDA kv : kv[1] = m[i][1])[1][2]
            stored == Get(obj._ldap_values, m[i][1])
        IN  stored.t = "list" =>
                last.out = Return(IF descriptor.allow_multiple THEN stored
                                  ELSE IF stored.v = <<>> THEN None
                                  ELSE Str(stored.v[1]))

\* C8 (SpecModel): attribute_for_key(k) returns the field's Attribute when k
\* is a declared field name or that field's external key, None for every
\* other k, and so never any other member of the class.
C8_DescriptorOrAbsent ==
    last.op = "attribute_for_key" =>
        LET m == ldap_attribute_map(last.cls)
        IN  /\ last.out.exc = ""
            /\ last.out.ret.t \in {"Attribute", "None"}
            /\ last.key \notin keys(m) \cup values(m) => last.out.ret = None
            /\ \A i \in DOMAIN m :
                  last.key \in {m[i][1], m[i][2]} =>
                      last.out.ret = SelectSeq(ClassVars(last.cls),
                                         LAMBDA kv : kv[1] = m[i][1])[1][2]

\* C9 (SpecModel): the value store of an instance has only declared field
\* names as keys; a value written by field name or by external key, in the
\* constructor, by assignment or by from_entry, is stored under the field
\* name; from_entry accepts an entry with keys the model does not declare,
\* and those keys do not enter the value store.
C9_StoreHoldsDeclaredFields ==
    /\ (last.op = "from_entry" /\ last.entry.t = "Entry") => last.out.exc = ""
    /\ obj.t = "instance" =>
          LET m == ldap_attribute_map(obj.cls)
              store == obj._ldap_values
              under(k, v) == \A i \in DOMAIN m :
                                k \in {m[i][1], m[i][2]} =>
                                    (m[i][1] \in DOMAIN store /\ store[m[i][1]] = v)
              written == CASE last.op = "__setattr__" -> << <<last.key, last.value>> >>
                           [] last.op = "__init__" -> last.kwargs
                           [] last.op = "from_entry" ->
                                 last.entry.entry_attributes_as_dict
                           [] OTHER -> <<>>
          IN  /\ DOMAIN store \subseteq keys(m)
              /\ \A i \in DOMAIN written : under(written[i][1], written[i][2])

\* an instance built by from_entry from an entry that carries objectClass,
\* which the model does not declare, beside declared keys
C9_Witness ==
    /\ last.op = "from_entry"
    /\ obj.t = "instance"
    /\ "objectClass" \in keys(last.entry.entry_attributes_as_dict)
    /\ DOMAIN obj._ldap_values = keys(ldap_attribute_map(obj.cls))
    /\ "objectClass" \in DOMAIN obj.__dict__

\* C10 (SpecScope): an access to a handle's shared connection outside any
\* application context returns None and creates nothing; the first access
\* inside an application context creates one connection and stores it for
\* that context; every later access inside that context returns the stored
\* connection and creates nothing; the connections of two contexts differ.
C10_SharedConnectionPerScope ==
    [][ (last'.op = "connection") =>
          /\ IF top = 0
             THEN /\ last'.out = Return(None)
                  /\ connections' = connections
                  /\ ctx_connection' = ctx_connection
             ELSE IF ctx_connection[top] = 0
             THEN /\ connections' # connections
                  /\ Len(connections') = Len(connections) + 1
                  /\ SubSeq(connections', 1, Len(connections)) = connections
                  /\ last'.out = Return(Connection(Len(connections')))
                  /\ ctx_connection' =
                        [ctx_connection EXCEPT ![top] = Len(connections')]
             ELSE /\ last'.out = Return(Connection(ctx_connection[top]))
                  /\ connections' = connections
                  /\ ctx_connection' = ctx_connection
          /\ \A s1, s2 \in DOMAIN ctx_connection' :
                (s1 # s2 /\ ctx_connection'[s1] # 0)
                    => ctx_connection'[s1] # ctx_connection'[s2]
    ]_vars

\* an access in the second of two application contexts, each of which has
\* its own connection
C10_Witness ==
    /\ last.op = "connection"
    /\ top = 2
    /\ Len(ctx_connection) = 2
    /\ ctx_connection[1] # 0
    /\ ctx_connection[2] # 0
    /\ ctx_connection[1] # ctx_connection[2]
    /\ last.out.ret = Connection(ctx_connection[2])

\* C11 (SpecCtx): a with block on the handle's connection_ctx yields the
\* shared connection when an application context is active and leaves it
\* open; otherwise it yields a temporary connection that is closed when the
\* block is left, by return or by an error; the builder's connection_ctx
\* yields the explicit connection, else the shared one, else the handle's
\* temporary one, else None.  No block changes a connection that existed
\* before it, and a connection it creates and does not close is the shared one.
C11_ConnectionCtxCloses ==
    [][ (last'.op \in {"od.connection_ctx", "query.connection_ctx"}) =>
          LET explicit == last'.op = "query.connection_ctx" /\ _connection # None
              handle == last'.op = "od.connection_ctx" \/ _open_directory # None
              n == Len(connections)
          IN  /\ SubSeq(connections', 1, n) = connections
              /\ Len(connections') \in {n, n + 1}
              /\ IF explicit
                 THEN /\ last'.yielded = _connection
                      /\ last'.temp = 0
                      /\ connections' = connections
                 ELSE IF handle /\ top # 0
                 THEN /\ last'.yielded = Connection(ctx_connection'[top])
                      /\ last'.temp = 0
                      /\ ~connections'[ctx_connection'[top]].closed
                      /\ Len(connections') = n + 1 <=> ctx_connection[top] = 0
                 ELSE IF handle
                 THEN /\ last'.yielded = Connection(n + 1)
                      /\ last'.temp = n + 1
                      /\ Len(connections') = n + 1
                      /\ connections'[n + 1].closed
                      /\ connections'[n + 1].by = "connection_ctx"
                 ELSE /\ last'.yielded = None
                      /\ last'.temp = 0
                      /\ connections' = connections
    ]_vars

\* a block of the handle that raised, outside any application context, after
\* a block that used the shared connection: the temporary connection is
\* closed, the shared one and the caller's are open
C11_Witness ==
    /\ last.op = "od.connection_ctx"
    /\ last.out.exc # ""
    /\ last.temp # 0
    /\ connections[last.temp].closed
    /\ \E s \in DOMAIN ctx_connection :
          ctx_connection[s] # 0 /\ ~connections[ctx_connection[s]].closed

\* C12 (SpecBuilder): assigning a value other than None that is not a model class or
\* instance to model, not a connection to connection, or not a handle to
\* open_directory raises TypeError and leaves the three bindings unchanged
C12_InvalidAssignmentRaises ==
    [][ (/\ last'.op \in {"__call__", "connection.setter", "open_directory"}
         /\ last'.value.t # "None"
         /\ last'.op = "__call__" => last'.value.t \notin {"class", "instance"}
         /\ last'.op = "connection.setter" => last'.value.t # "Connection"
         /\ last'.op = "open_directory" => last'.value.t # "OpenDirectory")
        => (/\ last'.exc = "TypeError"
            /\ UNCHANGED <<_model, _connection, _open_directory>>) ]_vars

\* the stored value of a member list of the group, None when it is absent
MemberList(field) == Get(ldap_values(obj), field)

\* C13 (SpecGroup): for a group whose member lists are lists or absent, has_user(u) is
\* True iff u is an item of users or of member_ids, and False otherwise; an
\* absent list matches nothing and raises nothing
C13_HasUserIffMember ==
    (/\ last.op = "has_user"
     /\ \A field \in {"users", "member_ids"} :
            MemberList(field).t \in {"None", "list"})
    => /\ last.out.exc = ""
       /\ last.out.ret =
            Bool(\E field \in {"users", "member_ids"} :
                    /\ MemberList(field).t = "list"
                    /\ \E i \in DOMAIN MemberList(field).v :
                          MemberList(field).v[i] = last.user)

\* has_user found the user in member_ids of a group whose users is absent
C13_Witness ==
    /\ last.op = "has_user"
    /\ last.out.ret = Bool(TRUE)
    /\ MemberList("users").t = "None"
    /\ MemberList("member_ids").t = "list"

\* C14 (SpecSearch), as stated: first() does not filter; when a search was issued and
\* the directory reported entries, first() returns the first reported entry,
\* converted when convert is true and a model is bound, even if all its
\* values are empty
C14_FirstReturnsFirstReported ==
    (last.op = "first" /\ last.searches # <<>> /\ last.entries # <<>>)
        => last.out =
              Return(IF last.convert /\ _model # None
                     THEN __init__(_model.cls,
                                   last.entries[1].entry_attributes_as_dict)
                     ELSE last.entries[1])

\* C14 (SpecSearch), amended: first() skips reported entries whose values are all empty,
\* as all() does; after a search it returns the first reported entry with a
\* non-empty value, converted when convert is true and a model is bound;
\* when no reported entry has one it returns None, or raises AttributeError
\* when convert is true and a model is bound
C14_FirstSkipsEmptyEntries ==
    (last.op = "first" /\ last.searches # <<>>)
        => LET kept == SelectSeq(last.entries, LAMBDA e :
                          \E i \in DOMAIN e.entry_attributes_as_dict :
                              e.entry_attributes_as_dict[i][2] # List(<<>>))
           IN  IF kept # <<>>
               THEN last.out =
                      Return(IF last.convert /\ _model # None
                             THEN __init__(_model.cls,
                                           kept[1].entry_attributes_as_dict)
                             ELSE kept[1])
               ELSE IF last.convert /\ _model # None
               THEN last.out.exc = "AttributeError"
               ELSE last.out = Return(None)

\* first() without conversion on three reported entries, the first with all
\* values empty: the second one is returned
C14_Witness ==
    /\ last.op = "first"
    /\ ~last.convert
    /\ last.searches # <<>>
    /\ Len(last.entries) = 3
    /\ \A i \in DOMAIN last.entries[1].entry_attributes_as_dict :
          last.entries[1].entry_attributes_as_dict[i][2] = List(<<>>)
    /\ last.out = Return(last.entries[2])

\* the location derived from a model's query location cn and a handle's
\* base location
DerivedLocation(cn, base) ==
    Str((IF Contains(cn, "cn=") THEN "" ELSE "cn=") \o cn \o "," \o base)

\* C15 (SpecBuilder): query(model) returns the builder and changes only the bound model:
\* the explicit location, filter, field list, connection and the handle are
\* unchanged, an explicit location is the effective one before and after,
\* and a location and a field list derived from the model follow the newly
\* bound model; filter(...) returns the builder and changes only the
\* explicit filter
C15_RebindChangesOnlyModel ==
    [][ /\ (last'.op = "__call__" /\ last'.exc = "") =>
            /\ last'.ret = Self
            /\ UNCHANGED <<_search_base, _search_filter, _ldap_attributes,
                           _connection, _open_directory>>
            /\ _model' = IF last'.value.t = "class" THEN last'.value
                         ELSE IF last'.value.t = "instance"
                         THEN Class(last'.value.cls)
                         ELSE _model
            /\ _search_base # None =>
                  (search_base = _search_base /\ search_base' = _search_base)
            /\ (_search_base = None /\ _model' # None /\ _open_directory # None)
                  => search_base' =
                        DerivedLocation(query_cn(_model'.cls).v,
                                        base_dn(_open_directory.id))
            /\ (_ldap_attributes = None /\ _model' # None)
                  => ldap_attributes' = ldap_keys(_model'.cls)
        /\ (last'.op = "filter" /\ last'.exc = "") =>
            /\ last'.ret = Self
            /\ UNCHANGED <<_search_base, _ldap_attributes, _model,
                           _connection, _open_directory>> ]_vars

\* query(ComputerGroup) on a builder with a handle, an explicit filter and
\* an explicit connection but no explicit location or field list: both are
\* the ones of ComputerGroup
C15_Witness ==
    /\ last.op = "__call__"
    /\ last.value = Class("ComputerGroup")
    /\ last.ret = Self
    /\ _open_directory = OpenDirectory("od1")
    /\ _search_filter # None
    /\ _connection # None
    /\ _search_base = None
    /\ _ldap_attributes = None
    /\ search_base = Str("cn=computer_groups,dc=example,dc=com")
    /\ ldap_attributes = ldap_keys("ComputerGroup")

\* C16 (SpecOverride): a connection passed to first() or all() becomes the builder's
\* explicit connection and is its effective connection when the call has
\* returned; nothing else replaces it, and every first()/all() call of a
\* builder with an explicit connection, with or without an override, issues
\* its one search call on that connection, whatever the shared connection
\* of the handle is and whether or not the connection has been closed
C16_OverrideIsStored ==
    [][ /\ last'.op \in {"first", "all"} =>
            /\ _connection' = IF last'.connection # None
                              THEN last'.connection ELSE _connection
            /\ _connection' # None =>
                  /\ connection(_connection', World').ret = _connection'
                  /\ Len(last'.searches) = 1
                  /\ last'.searches[1].connection = _connection'.id
        /\ last'.op \notin {"first", "all"} => UNCHANGED _connection ]_vars

\* a call without an override has searched through the connection an
\* earlier call stored, which the caller has closed since, while the
\* application context holds another connection of the handle
C16_Witness ==
    /\ last.op \in {"first", "all"}
    /\ last.connection = None
    /\ _connection # None
    /\ connections[_connection.id].closed
    /\ top # 0
    /\ ctx_connection[top] \notin {0, _connection.id}
    /\ last.searches[1].connection = _connection.id

\* C17 (SpecBuilder): an explicit setting is replaced but never cleared: a setting that is
\* not None stays not None in every step; assigning None to the location,
\* the filter, the field list, the model, the connection or the handle, and
\* filter() with no string and no criteria, change no setting; so once a
\* filter is set the effective filter is the explicit one, and once a
\* location is set the effective location is the explicit one
C17_NeverCleared ==
    [][ /\ \A i \in 1..6 :
              <<_search_base, _search_filter, _ldap_attributes, _model,
                _connection, _open_directory>>[i] # None
              => <<_search_base', _search_filter', _ldap_attributes', _model',
                   _connection', _open_directory'>>[i] # None
        /\ (/\ last'.op \in {"search_base", "search_filter", "ldap_attributes",
                              "__call__", "connection.setter", "open_directory"}
            /\ last'.value = None)
              => (/\ last'.exc = ""
                  /\ UNCHANGED <<_search_base, _search_filter, _ldap_attributes,
                                 _model, _connection, _open_directory>>)
        /\ (last'.op = "filter" /\ last'.kwargs = <<>>
                /\ \A i \in DOMAIN last'.args : last'.args[i].t # "str")
              => (/\ last'.exc = ""
                  /\ UNCHANGED <<_search_base, _search_filter, _ldap_attributes,
                                 _model, _connection, _open_directory>>)
        /\ _search_filter # None => search_filter' = _search_filter'
        /\ _search_base # None => search_base' = _search_base' ]_vars

\* None was assigned to the filter of a builder whose filter, model, handle
\* and connection are set: the filter set before is still the effective one
C17_Witness ==
    /\ last.op = "search_filter"
    /\ last.value = None
    /\ _search_filter = Str("(cn=x)")
    /\ search_filter = Str("(cn=x)")
    /\ _model # None
    /\ _open_directory # None
    /\ _connection # None

\* C18 (SpecScope): the shared connection belongs to the application context, not to
\* the handle: an access by either handle inside a context returns the one
\* connection stored on that context; the handle that accesses first
\* creates it, to its own server; an access by the other handle returns it
\* and creates nothing, and both handles read the same connection afterwards
C18_SharedKeyedByScope ==
    [][ (last'.op = "connection" /\ top # 0) =>
          /\ last'.out = Return(Connection(ctx_connection'[top]))
          /\ IF ctx_connection[top] = 0
             THEN /\ Len(connections') = Len(connections) + 1
                  /\ ctx_connection'[top] = Len(connections')
                  /\ connections'[Len(connections')].server =
                        server_url(last'.od)
             ELSE UNCHANGED <<connections, ctx_connection>>
          /\ \A od \in Handles :
                BaseOpenDirectory_connection(od, World') =
                    [ret |-> last'.out.ret, w |-> World']
    ]_vars

\* the handle od2 accessed its shared connection in a context where od1 had
\* accessed first: it got the connection to od1's server
C18_Witness ==
    /\ last.op = "connection"
    /\ last.od = "od2"
    /\ top # 0
    /\ last.out.ret = Connection(ctx_connection[top])
    /\ connections[ctx_connection[top]].server = server_url("od1")
    /\ server_url("od1") # server_url("od2")
    /\ \A i \in DOMAIN connections : connections[i].server = server_url("od1")

\* C19 (SpecBuilder): with a model bound, filter(**criteria) with a criterion name that
\* is neither a field name nor an ldap key of the model raises
\* AttributeError, and no setting of the builder is changed by the call
C19_UndeclaredCriterionFails ==
    [][ (/\ last'.op = "filter"
         /\ _model # None
         /\ \A i \in DOMAIN last'.args : last'.args[i].t # "str"
         /\ \E i \in DOMAIN last'.kwargs :
               last'.kwargs[i][1] \notin
                   keys(ldap_attribute_map(_model.cls))
                       \cup values(ldap_attribute_map(_model.cls)))
        => (/\ last'.exc = "AttributeError"
            /\ UNCHANGED <<_search_base, _search_filter, _ldap_attributes,
                           _model, _connection, _open_directory>>) ]_vars

\* filter(username='alice') has failed on a builder bound to ComputerGroup
\* whose filter was set before
C19_Witness ==
    /\ last.op = "filter"
    /\ last.args = <<>>
    /\ last.kwargs = << <<"username", "alice">> >>
    /\ last.exc = "AttributeError"
    /\ _model = Class("ComputerGroup")
    /\ _search_filter = Str("(cn=x)")

\* C20 (SpecResolve): for a key k that is a field name or an ldap key of the class, a
\* non-empty list written through k and then read through k comes back
\* under the multiplicity of the descriptor attribute_for_key(k) returns:
\* whole when it allows multiple values, its first item when it does not;
\* also when a field's name is another field's ldap key
C20_KeyResolvesToOneField ==
    [][ (/\ last.op = "__setattr__"
         /\ last'.op = "__getattribute__"
         /\ last'.key = last.key
         /\ last.key \in keys(ldap_attribute_map(obj.cls))
                            \cup values(ldap_attribute_map(obj.cls))
         /\ last.value.t = "list"
         /\ Len(last.value.v) > 0)
        => (/\ attribute_for_key(obj.cls, last.key).t = "Attribute"
            /\ last'.out =
                  Return(IF attribute_for_key(obj.cls, last.key).allow_multiple
                         THEN last.value
                         ELSE Str(last.value.v[1]))) ]_vars

====
